---- MODULE Spec2Model ----
(***************************************************************************)
(* A model of src/pipeline.py: the Pipeline class.                         *)
(*                                                                         *)
(*   __assemble            expansion of a specification tree into the      *)
(*                         list of option-free specifications              *)
(*   __construct /         flattening of one option-free specification     *)
(*   __flatten_nested_list into the list of stages                         *)
(*   __run_pipeline        the run of one stage list on the inputs         *)
(*   transform             the loop over the expansion, one guarded run    *)
(*                         per combination                                 *)
(*   filter_results        flattening and column filtering of results      *)
(*                                                                         *)
(* Python values are records tagged with their Python type in field t.     *)
(* A dict is the sequence k of its keys, in iteration order, and the       *)
(* sequence c of their values; a list or tuple is the sequence c of its    *)
(* elements.                                                               *)
(***************************************************************************)
EXTENDS Integers, Sequences, FiniteSets, TLC

VARIABLES
    keyorder,       \* the interpreter: the probe sequence of each key it
                    \* hashes, which fixes the order in which a dict iterates
                    \* (hash order before Python 3.7, insertion order since)
    specification,  \* self.__specification
    pc,             \* where transform stands: "idle", "loop", "raised";
                    \* "assembled" in the expansion-only specification
    args,           \* transform's *args
    kwargs,         \* transform's **kwargs
    expanded,       \* the list __assemble returned (transform, line 91)
    idx,            \* position of the for loop of line 91 in expanded
    results,        \* transform's local results
    returned,       \* what the last completed transform call returned, and
                    \* whether that call was the first one or a later one
    runs,           \* the runs of the current call, one record per combination
    first,          \* the first completed call: its inputs and its result
    given,          \* filter_results: the results argument
    filtered        \* filter_results: what the last call returned

vars == <<keyorder, specification, pc, args, kwargs, expanded, idx, results, returned,
          runs, first, given, filtered>>

-----------------------------------------------------------------------------
(* Python values *)

PyInt(i) == [t |-> "int", n |-> i]
PyStr(x) == [t |-> "str", s |-> x]
Fn(f) == [t |-> "function", name |-> f]
None == [t |-> "NoneType"]
List(c) == [t |-> "list", c |-> c]
Tuple(c) == [t |-> "tuple", c |-> c]
Dict(k, c) == [t |-> "dict", k |-> k, c |-> c]

EmptyDict == Dict(<<>>, <<>>)

\* key in d
DictHas(d, key) == \E i \in 1..Len(d.k) : d.k[i] = key

\* d[key], for a key of d
DictGet(d, key) == d.c[CHOOSE i \in 1..Len(d.k) : d.k[i] = key]

\* d[key] = val: an existing key keeps its place, a new one is added last
DictSet(d, key, val) ==
    IF DictHas(d, key)
    THEN Dict(d.k, [i \in 1..Len(d.k) |-> IF d.k[i] = key THEN val ELSE d.c[i]])
    ELSE Dict(Append(d.k, key), Append(d.c, val))

\* hash(v) succeeds: a list or a dict is no dict key
Hashable(v) == v.t \notin {"list", "dict"}

\* iter(v) succeeds
Iterable(v) == v.t \in {"list", "tuple", "dict", "str"}

\* the elements `for x in v` visits: the elements of a list or tuple, the keys
\* of a dict, the one-character strings of a string
Iterate(v) ==
    IF v.t = "dict" THEN v.k
    ELSE IF v.t = "str" THEN [i \in 1..Len(v.s) |-> PyStr(SubSeq(v.s, i, i))]
    ELSE v.c

RECURSIVE Concat(_)
\* the concatenation of a sequence of sequences
Concat(parts) ==
    IF parts = <<>> THEN <<>> ELSE Head(parts) \o Concat(Tail(parts))

-----------------------------------------------------------------------------
(* __assemble, lines 121-141 *)

RECURSIVE Product(_)
\* itertools.product(*lists): every way to take one element of each list, the
\* last list's choice changing fastest
Product(lists) ==
    IF lists = <<>> THEN << <<>> >>
    ELSE LET rest == Product(Tail(lists))
         IN  Concat([i \in 1..Len(Head(lists)) |->
                        [j \in 1..Len(rest) |-> <<Head(lists)[i]>> \o rest[j]]])

\* a faulty variant of OptionCombinations: every alternative replaces the ones before
\* it (ret = ... for ret.extend(...))
OptionLastOnly(parts) == IF parts = <<>> THEN <<>> ELSE parts[Len(parts)]

\* lines 126-129: an option's expansions are its alternatives' expansions, one
\* after the other
OptionCombinations(parts) == Concat(parts)

RECURSIVE Slots(_, _, _)
\* the slot each of keys takes in the hash table of a dict when the keys are
\* inserted in this order, after the slots taken: the first slot on the key's
\* probe sequence that no earlier key has taken
Slots(order, keys, taken) ==
    IF Len(taken) = Len(keys) THEN taken
    ELSE LET probes == order[keys[Len(taken) + 1]]
             used == {taken[l] : l \in 1..Len(taken)}
             free == CHOOSE i \in 1..Len(probes) :
                        /\ probes[i] \notin used
                        /\ \A h \in 1..(i - 1) : probes[h] \in used
         IN  Slots(order, keys, Append(taken, probes[free]))

\* the positions of keys in the order in which a dict iterates them after they
\* were inserted in this order: by slot where the interpreter hashes every
\* key, in insertion order otherwise
RetOrder(order, keys) ==
    IF \A j \in 1..Len(keys) : keys[j] \in DOMAIN order
    THEN LET slot == Slots(order, keys, <<>>)
         IN  [i \in 1..Len(keys) |->
                 CHOOSE j \in 1..Len(keys) :
                     Cardinality({l \in 1..Len(keys) : slot[l] < slot[j]}) = i - 1]
    ELSE [i \in 1..Len(keys) |-> i]

\* the keys or the values of a dict, moved to the positions p
Arrange(p, q) == [i \in 1..Len(p) |-> q[p[i]]]

\* lines 131-134: ret holds one list of expansions per key; the product runs
\* over ret.values() in the iteration order of ret, the last of them changing
\* fastest, and each expansion is a dict built by inserting ret.keys() in that
\* order, so that it iterates as the interpreter has it
MappingCombinations(order, keys, parts) ==
    LET p == RetOrder(order, keys)
        retkeys == Arrange(p, keys)
        items == Product(Arrange(p, parts))
        q == RetOrder(order, retkeys)
        newkeys == Arrange(q, retkeys)
    IN  [j \in 1..Len(items) |-> Dict(newkeys, Arrange(q, items[j]))]

Reverse(q) == [i \in 1..Len(q) |-> q[Len(q) + 1 - i]]

\* a faulty variant of SequenceCombinations: the first element's choice changes
\* fastest
SequenceFirstFastest(parts) ==
    LET items == Product(Reverse(parts))
    IN  [j \in 1..Len(items) |-> List(Reverse(items[j]))]

\* a faulty variant of SequenceCombinations: a list without elements has no expansion
SequenceNoneWhenEmpty(parts) ==
    LET items == IF parts = <<>> THEN <<>> ELSE Product(parts)
    IN  [j \in 1..Len(items) |-> List(items[j])]

\* lines 136-139: a list's expansions hold one expansion of each element
SequenceCombinations(parts) ==
    LET items == Product(parts)
    IN  [j \in 1..Len(items) |-> List(items[j])]

RECURSIVE Assemble(_, _)
\* __assemble(specification), on the interpreter order
Assemble(order, spec) ==
    IF spec.t = "tuple"
    THEN OptionCombinations([i \in 1..Len(spec.c) |-> Assemble(order, spec.c[i])])
    ELSE IF spec.t = "dict"
    THEN MappingCombinations(order, spec.k,
                             [i \in 1..Len(spec.c) |-> Assemble(order, spec.c[i])])
    ELSE IF spec.t = "list"
    THEN SequenceCombinations([i \in 1..Len(spec.c) |-> Assemble(order, spec.c[i])])
    ELSE <<spec>>

-----------------------------------------------------------------------------
(* __construct and __flatten_nested_list, lines 143-158 *)

RECURSIVE FlattenItems(_)
\* lines 152-158 over the items the for loop visits: a list item is flattened
\* in place, any other item is kept
FlattenItems(items) ==
    IF items = <<>> THEN <<>>
    ELSE LET item == Head(items)
         IN  (IF item.t = "list" THEN FlattenItems(item.c) ELSE <<item>>)
                 \o FlattenItems(Tail(items))

\* __flatten_nested_list(nested_list), for a nested_list that can be iterated
FlattenNestedList(nested) == FlattenItems(Iterate(nested))

\* __construct(specification): the flat list of stages
Construct(spec) == FlattenNestedList(spec)

\* line 153 raises TypeError for a specification that is no iterable
ConstructRaises(spec) == ~Iterable(spec)

-----------------------------------------------------------------------------
(* Stage functions: the callables a specification names.  They are the      *)
(* caller's, not the repository's; the model has these:                     *)
(*   identity = lambda x: x                                                 *)
(*   const    = lambda: 7                                                   *)
(*   pair     = lambda x, y: (x, y)                                         *)
(*   triple   = lambda x: (x, [x], None)                                    *)
(*   fail     = a function of any arguments that raises ValueError          *)

Params(f) ==
    CASE f = "identity" -> <<"x">>
      [] f = "const" -> <<>>
      [] f = "pair" -> <<"x", "y">>
      [] f = "triple" -> <<"x">>
      [] OTHER -> <<>>

\* the value f returns on the arguments bound by name in b
Body(f, b) ==
    CASE f = "identity" -> b["x"]
      [] f = "const" -> PyInt(7)
      [] f = "pair" -> Tuple(<<b["x"], b["y"]>>)
      [] f = "triple" -> Tuple(<<b["x"], List(<<b["x"]>>), None>>)
      [] OTHER -> None

\* Python's binding of f(*inputs, **kw): the positional arguments fill the
\* first parameters, every keyword names one of the others, none is left over
Binds(f, inputs, kw) ==
    LET ps == Params(f)
        n == Len(inputs)
    IN  /\ n <= Len(ps)
        /\ n + Len(kw.k) = Len(ps)
        /\ \A i \in 1..Len(kw.k) :
              /\ kw.k[i].t = "str"
              /\ \E j \in (n + 1)..Len(ps) : ps[j] = kw.k[i].s

\* fn(*inputs, **kw): whether the body ran (invoked), whether it returned
\* (ok), and what it returned (val)
Invoke(fn, inputs, kw) ==
    IF fn.t # "function" \/ kw.t # "dict"
    THEN [invoked |-> FALSE, ok |-> FALSE, val |-> None]
    ELSE IF fn.name = "fail"
    THEN [invoked |-> TRUE, ok |-> FALSE, val |-> None]
    ELSE IF ~Binds(fn.name, inputs, kw)
    THEN [invoked |-> FALSE, ok |-> FALSE, val |-> None]
    ELSE LET ps == Params(fn.name)
             b == [p \in {ps[i] : i \in 1..Len(ps)} |->
                     LET i == CHOOSE i \in 1..Len(ps) : ps[i] = p
                     IN  IF i <= Len(inputs) THEN inputs[i]
                         ELSE DictGet(kw, PyStr(p))]
         IN  [invoked |-> TRUE, ok |-> TRUE, val |-> Body(fn.name, b)]

-----------------------------------------------------------------------------
(* __run_pipeline, lines 100-119 *)

\* a faulty variant of InitialData: the environment is one dict kept from run to run,
\* so a run starts from the bindings of the run that completed before it
InitialDataCarried(pipeline, a, k) ==
    LET base == IF results # <<>> THEN results[Len(results)] ELSE k
        named == DictSet(base, PyStr("pipeline"), List(pipeline))
        F[i \in 0..Len(a)] ==
            IF i = 0 THEN named ELSE DictSet(F[i - 1], PyInt(i - 1), a[i])
    IN  F[Len(a)]

\* lines 103-106: the environment a run starts from
InitialData(pipeline, a, k) ==
    LET named == DictSet(k, PyStr("pipeline"), List(pipeline))
        F[i \in 0..Len(a)] ==
            IF i = 0 THEN named ELSE DictSet(F[i - 1], PyInt(i - 1), a[i])
    IN  F[Len(a)]

\* lines 108-110: every input of the stage is looked up in data
InputsResolve(data, stage) ==
    /\ stage.t = "dict"
    /\ DictHas(stage, PyStr("in"))
    /\ Iterable(DictGet(stage, PyStr("in")))
    /\ LET ins == Iterate(DictGet(stage, PyStr("in")))
       IN  \A i \in 1..Len(ins) : DictHas(data, ins[i])

Inputs(data, stage) ==
    LET ins == Iterate(DictGet(stage, PyStr("in")))
    IN  [i \in 1..Len(ins) |-> DictGet(data, ins[i])]

\* lines 111-114: the call of the stage's function, after the inputs resolved
CallStage(data, stage) ==
    IF ~DictHas(stage, PyStr("function"))
    THEN [invoked |-> FALSE, ok |-> FALSE, val |-> None]
    ELSE Invoke(DictGet(stage, PyStr("function")), Inputs(data, stage),
                IF DictHas(stage, PyStr("kwargs"))
                THEN DictGet(stage, PyStr("kwargs")) ELSE EmptyDict)

\* a faulty variant of Outputs: a value that is no tuple is bound as a one-element
\* tuple
OutputsWrapped(ret) == IF ret.t = "tuple" THEN ret.c ELSE <<Tuple(<<ret>>)>>

\* lines 115-116: a return value that is no tuple is one output
Outputs(ret) == IF ret.t = "tuple" THEN ret.c ELSE <<ret>>

\* a faulty variant of WriteOutput: a sink that is bound keeps its value
\* (data.setdefault(out, value))
WriteOutputKeepFirst(data, out, value) ==
    IF DictHas(data, out) THEN data ELSE DictSet(data, out, value)

\* line 118: data[out] = value
WriteOutput(data, out, value) == DictSet(data, out, value)

\* line 117-118 raise: no 'out' key, an 'out' that cannot be iterated or names
\* an unhashable sink, or fewer outputs than sinks
OutputsWritable(stage, outputs) ==
    /\ DictHas(stage, PyStr("out"))
    /\ Iterable(DictGet(stage, PyStr("out")))
    /\ LET outs == Iterate(DictGet(stage, PyStr("out")))
       IN  /\ Len(outs) <= Len(outputs)
           /\ \A i \in 1..Len(outs) : Hashable(outs[i])

\* lines 117-118: the outputs are written in the order of 'out'
WriteOutputs(data, stage, outputs) ==
    LET outs == Iterate(DictGet(stage, PyStr("out")))
        F[i \in 0..Len(outs)] ==
            IF i = 0 THEN data ELSE WriteOutput(F[i - 1], outs[i], outputs[i])
    IN  F[Len(outs)]

\* a faulty variant of RunStage: the stage's keys are checked before its function is
\* called
RunStageChecked(data, stage) ==
    IF ~InputsResolve(data, stage) \/ ~DictHas(stage, PyStr("out"))
    THEN [invoked |-> FALSE, ok |-> FALSE, ret |-> None, after |-> data]
    ELSE LET r == CallStage(data, stage)
         IN  IF ~r.ok
             THEN [invoked |-> r.invoked, ok |-> FALSE, ret |-> None, after |-> data]
             ELSE IF ~OutputsWritable(stage, Outputs(r.val))
             THEN [invoked |-> TRUE, ok |-> FALSE, ret |-> r.val, after |-> data]
             ELSE [invoked |-> TRUE, ok |-> TRUE, ret |-> r.val,
                   after |-> WriteOutputs(data, stage, Outputs(r.val))]

\* lines 108-118 for one stage: whether the function body ran (invoked),
\* whether the stage completed (ok), what the function returned (ret) and the
\* environment after the stage (after)
RunStage(data, stage) ==
    IF ~InputsResolve(data, stage)
    THEN [invoked |-> FALSE, ok |-> FALSE, ret |-> None, after |-> data]
    ELSE LET r == CallStage(data, stage)
         IN  IF ~r.ok
             THEN [invoked |-> r.invoked, ok |-> FALSE, ret |-> None, after |-> data]
             ELSE IF ~OutputsWritable(stage, Outputs(r.val))
             THEN [invoked |-> TRUE, ok |-> FALSE, ret |-> r.val, after |-> data]
             ELSE [invoked |-> TRUE, ok |-> TRUE, ret |-> r.val,
                   after |-> WriteOutputs(data, stage, Outputs(r.val))]

RECURSIVE RunStages(_, _, _, _, _)
\* the for loop of line 107 from stage k on: steps holds, for every completed
\* stage, what its function returned and the environment after it; invoked
\* holds the positions of the stages whose function body ran
RunStages(pipeline, k, data, steps, invoked) ==
    IF k > Len(pipeline)
    THEN [ok |-> TRUE, steps |-> steps, invoked |-> invoked]
    ELSE LET s == RunStage(data, pipeline[k])
             inv == IF s.invoked THEN Append(invoked, k) ELSE invoked
         IN  IF ~s.ok
             THEN [ok |-> FALSE, steps |-> steps, invoked |-> inv]
             ELSE RunStages(pipeline, k + 1, s.after,
                            Append(steps, [ret |-> s.ret, after |-> s.after]), inv)

\* line 94: the call self.__run_pipeline(pipeline, *args, **kwargs) raises
\* TypeError when a named input has the name of a parameter of line 100
CallBinds(k) == ~DictHas(k, PyStr("pipeline")) /\ ~DictHas(k, PyStr("self"))

\* __run_pipeline(pipeline, *a, **k): the record of one run
RunPipeline(pipeline, a, k) ==
    IF ~CallBinds(k)
    THEN [pipeline |-> pipeline, started |-> FALSE, start |-> k, ok |-> FALSE,
          steps |-> <<>>, invoked |-> <<>>]
    ELSE LET start == InitialData(pipeline, a, k)
             r == RunStages(pipeline, 1, start, <<>>, <<>>)
         IN  [pipeline |-> pipeline, started |-> TRUE, start |-> start,
              ok |-> r.ok, steps |-> r.steps, invoked |-> r.invoked]

\* line 119: the environment a run returns
FinalData(run) ==
    IF run.steps = <<>> THEN run.start ELSE run.steps[Len(run.steps)].after

-----------------------------------------------------------------------------
(* The specifications and inputs the model is run on *)

Stage(fn, ins, outs) ==
    Dict(<<PyStr("function"), PyStr("in"), PyStr("out")>>,
         <<Fn(fn), List(ins), List(outs)>>)

StageKw(fn, ins, outs, kw) ==
    Dict(<<PyStr("function"), PyStr("in"), PyStr("out"), PyStr("kwargs")>>,
         <<Fn(fn), List(ins), List(outs), kw>>)

\* {'function': identity, 'in': [0], 'out': ['a']}
sCopy == Stage("identity", <<PyInt(0)>>, <<PyStr("a")>>)
\* {'function': pair, 'in': [0], 'out': ['a', 'b'], 'kwargs': {'y': (1, 2)}}
sPair ==
    StageKw("pair", <<PyInt(0)>>, <<PyStr("a"), PyStr("b")>>,
            Dict(<<PyStr("y")>>, <<Tuple(<<PyInt(1), PyInt(2)>>)>>))
\* {'function': triple, 'in': ['a'], 'out': ['b', 'a']}
sTriple == Stage("triple", <<PyStr("a")>>, <<PyStr("b"), PyStr("a")>>)
\* {'function': fail, 'in': [], 'out': ['a']}
sFail == Stage("fail", <<>>, <<PyStr("a")>>)
\* {'function': identity, 'in': [0]}
sNoOut ==
    Dict(<<PyStr("function"), PyStr("in")>>, <<Fn("identity"), List(<<PyInt(0)>>)>>)
\* {'function': pair, 'in': [0, 'x'], 'out': ['a', 'a']}
sTwice == Stage("pair", <<PyInt(0), PyStr("x")>>, <<PyStr("a"), PyStr("a")>>)
\* {'function': const, 'in': [], 'out': ['a']}
sConst == Stage("const", <<>>, <<PyStr("a")>>)
\* {'function': const, 'in': [], 'out': ['a', 'b']}
sShort == Stage("const", <<>>, <<PyStr("a"), PyStr("b")>>)

\* {'function': identity, 'in': ([0], [1]), 'out': (['a'], ['b'])}
sEither ==
    Dict(<<PyStr("function"), PyStr("in"), PyStr("out")>>,
         <<Fn("identity"), Tuple(<<List(<<PyInt(0)>>), List(<<PyInt(1)>>)>>),
           Tuple(<<List(<<PyStr("a")>>), List(<<PyStr("b")>>)>>)>>)

\* what a list of the specification may hold: a stage, an option between two
\* stages, a nested list
StageNodes ==
    {sCopy, sPair, sNoOut, sTwice,
     Tuple(<<sFail, sConst>>), List(<<sCopy, List(<<sTriple>>)>>)}

\* the alternatives of a top-level option: stage lists, a value that is no
\* iterable
Alternatives ==
    {List(<<sEither, sTriple>>), List(<<sConst>>), List(<<sShort>>),
     List(<<sCopy, sNoOut>>), PyInt(3)}

MaxStages == 2
MaxAlternatives == 2

SeqsUpTo(S, n) == UNION {[1..m -> S] : m \in 0..n}

Specifications ==
    {List(c) : c \in SeqsUpTo(StageNodes, MaxStages)}
        \cup {Tuple(c) : c \in SeqsUpTo(Alternatives, MaxAlternatives)}
        \cup {None, sCopy}

\* an interpreter whose dicts iterate in insertion order: it hashes no key
InsertionOrder == [k \in {} |-> <<>>]

\* a CPython 2.7 interpreter (64 bit, no hash randomisation): the first probes
\* of each key in the eight slots of a small dict, slot = hash & 7 and then
\* i = 5 * i + perturb + 1, perturb >>= 5
HashOrder ==
    [k \in {PyStr("function"), PyStr("in"), PyStr("out"), PyStr("kwargs"),
            PyStr("x"), PyStr("y")} |->
        CASE k = PyStr("function") -> <<0, 1, 0, 0, 2, 4>>
          [] k = PyStr("in") -> <<7, 3, 4, 6, 0, 2>>
          [] k = PyStr("out") -> <<7, 3, 4, 3, 4, 7>>
          [] k = PyStr("kwargs") -> <<7, 3, 1, 6, 1, 4>>
          [] k = PyStr("x") -> <<1, 7, 7, 1, 5, 2>>
          [] k = PyStr("y") -> <<0, 1, 5, 7, 5, 4>>]

\* the interpreters the code is run on
Interpreters == {InsertionOrder, HashOrder}

\* the inputs of a transform call: args and kwargs
InputChoices ==
    {[args |-> <<>>, kwargs |-> EmptyDict],
     [args |-> <<PyInt(5), PyInt(6)>>, kwargs |-> Dict(<<PyStr("x")>>, <<PyInt(8)>>)],
     [args |-> <<PyInt(5)>>, kwargs |-> Dict(<<PyStr("pipeline")>>, <<PyInt(9)>>)]}

-----------------------------------------------------------------------------
(* transform, lines 86-98 *)

NoCall == [by |-> "none", value |-> <<>>]

\* a faulty variant of NewResults: the list of the call before is used again
ResultsKept == returned.value

\* line 90
NewResults == <<>>

\* line 94: the kwargs the run is called with; the call builds the run's own
\* dict from them
CallKwargs == kwargs

\* a faulty variant of ResultsAfter: the environment of a run that raised is added too
ResultsAfterAlways(res, run) == Append(res, FinalData(run))

\* lines 93-97: a run that returned adds its environment, a run that raised
\* adds nothing
ResultsAfter(res, run) == IF run.ok THEN Append(res, FinalData(run)) ELSE res

Init ==
    /\ keyorder \in Interpreters
    /\ specification \in Specifications
    /\ pc = "idle"
    /\ args = <<>>
    /\ kwargs = EmptyDict
    /\ expanded = <<>>
    /\ idx = 1
    /\ results = <<>>
    /\ returned = NoCall
    /\ runs = <<>>
    /\ first = <<>>
    /\ given = <<>>
    /\ filtered = <<>>

\* transform(*a, **k) is called: lines 90-91, up to the first iteration
Transform(a, k) ==
    /\ pc \in {"idle", "raised"}
    /\ args' = a
    /\ kwargs' = k
    /\ results' = NewResults
    /\ expanded' = Assemble(keyorder, specification)
    /\ idx' = 1
    /\ runs' = <<>>
    /\ pc' = "loop"
    /\ UNCHANGED <<keyorder, specification, returned, first, given, filtered>>

\* one iteration of the loop of line 91: lines 92-97
RunCombination ==
    /\ pc = "loop"
    /\ idx <= Len(expanded)
    /\ IF ConstructRaises(expanded[idx])
       THEN \* line 92 is outside the try: transform raises
            /\ pc' = "raised"
            /\ UNCHANGED <<idx, results, runs>>
       ELSE LET run == RunPipeline(Construct(expanded[idx]), args, CallKwargs)
            IN  /\ results' = ResultsAfter(results, run)
                /\ runs' = Append(runs, run)
                /\ idx' = idx + 1
                /\ pc' = "loop"
    /\ UNCHANGED <<keyorder, specification, args, kwargs, expanded, returned, first,
                   given, filtered>>

\* line 98
Return ==
    /\ pc = "loop"
    /\ idx > Len(expanded)
    /\ pc' = "idle"
    /\ returned' = [by |-> IF first = <<>> THEN "first" ELSE "later",
                    value |-> results]
    /\ first' = IF first = <<>>
                THEN <<[specification |-> specification, args |-> args,
                        kwargs |-> kwargs, value |-> results]>>
                ELSE first
    /\ UNCHANGED <<keyorder, specification, args, kwargs, expanded, idx, results, runs,
                   given, filtered>>

Next ==
    \/ \E i \in InputChoices : Transform(i.args, i.kwargs)
    \/ RunCombination
    \/ Return

Spec == Init /\ [][Next]_vars

-----------------------------------------------------------------------------
(* The expansion alone: __assemble applied to a tree of containers *)

\* a leaf of the trees
Atom == PyInt(1)

\* a second leaf, so that the entries of an expansion differ
Leaf == PyInt(2)

\* the keys of the dicts of the trees, in iteration order
TreeKeys == <<PyStr("in"), PyStr("out"), PyStr("function"), PyStr("kwargs")>>

MaxWidth == 2

\* the three containers over every sequence of at most MaxWidth children
Containers(children) ==
    UNION {{List(c), Tuple(c), Dict(SubSeq(TreeKeys, 1, Len(c)), c)} :
              c \in SeqsUpTo(children, MaxWidth)}

Level1 == {Atom, Leaf, Tuple(<<Atom, Leaf>>)} \cup Containers({Atom})

Trees == Level1 \cup Containers(Level1)

InitExpand ==
    /\ keyorder \in Interpreters
    /\ specification \in Trees
    /\ pc = "idle"
    /\ args = <<>>
    /\ kwargs = EmptyDict
    /\ expanded = <<>>
    /\ idx = 1
    /\ results = <<>>
    /\ returned = NoCall
    /\ runs = <<>>
    /\ first = <<>>
    /\ given = <<>>
    /\ filtered = <<>>

\* self.__assemble(self.__specification), line 91
AssembleSpecification ==
    /\ pc = "idle"
    /\ expanded' = Assemble(keyorder, specification)
    /\ pc' = "assembled"
    /\ UNCHANGED <<keyorder, specification, args, kwargs, idx, results, returned, runs,
                   first, given, filtered>>

NextExpand == AssembleSpecification

SpecExpand == InitExpand /\ [][NextExpand]_vars

-----------------------------------------------------------------------------
(* filter_results, lines 160-186 *)

\* d.items(), in iteration order
Items(d) == [i \in 1..Len(d.k) |-> <<d.k[i], d.c[i]>>]

\* a faulty variant of DictOfPairs: a key keeps the value of its first pair
DictOfPairsFirstWins(pairs) ==
    LET F[i \in 0..Len(pairs)] ==
            IF i = 0 THEN EmptyDict
            ELSE IF DictHas(F[i - 1], pairs[i][1]) THEN F[i - 1]
            ELSE DictSet(F[i - 1], pairs[i][1], pairs[i][2])
    IN  F[Len(pairs)]

\* dict(pairs), line 178: a key stands where its first pair stands and has
\* the value of its last pair
DictOfPairs(pairs) ==
    LET F[i \in 0..Len(pairs)] ==
            IF i = 0 THEN EmptyDict ELSE DictSet(F[i - 1], pairs[i][1], pairs[i][2])
    IN  F[Len(pairs)]

RECURSIVE FlattenPairs(_)
\* lines 169-177: the list ret of _flatten_nested_dict(nested_dict)
FlattenPairs(nested) ==
    IF nested.t = "list"
    THEN Concat([i \in 1..Len(nested.c) |->
                    Items(DictOfPairs(FlattenPairs(nested.c[i])))])
    ELSE IF nested.t = "dict"
    THEN Concat([i \in 1..Len(nested.k) |->
                    <<<<nested.k[i], nested.c[i]>>>>
                        \o (IF nested.c[i].t \in {"dict", "list"}
                            THEN Items(DictOfPairs(FlattenPairs(nested.c[i])))
                            ELSE <<>>)])
    ELSE <<>>

\* _flatten_nested_dict(nested_dict), lines 166-178
FlattenNestedDict(nested) == DictOfPairs(FlattenPairs(nested))

\* line 184: the entries of result whose key is in columns
FilterColumns(result, columns) ==
    LET keep == SelectSeq(Items(result),
                          LAMBDA p : \E j \in 1..Len(columns.c) : columns.c[j] = p[1])
    IN  Dict([i \in 1..Len(keep) |-> keep[i][1]], [i \in 1..Len(keep) |-> keep[i][2]])

\* lines 181-184 for one result
FilterResult(result, columns, flatten) ==
    LET flat == IF flatten THEN FlattenNestedDict(result) ELSE result
    IN  IF columns # None THEN FilterColumns(flat, columns) ELSE flat

\* filter_results(results, columns, flatten), lines 179-186
FilterResults(res, columns, flatten) ==
    [i \in 1..Len(res) |-> FilterResult(res[i], columns, flatten)]

\* the keys of the nested results
FlatKeys == {PyInt(0), PyStr("a")}

\* the dicts with keys of K, in every order, and values of V
OrderedDicts(K, V) ==
    {Dict(ks, vs) :
        <<ks, vs>> \in UNION {{ks \in [1..m -> K] :
                                  \A i, j \in 1..m : ks[i] = ks[j] => i = j}
                                \X [1..m -> V] : m \in 0..Cardinality(K)}}

Innermost == OrderedDicts(FlatKeys, {PyInt(1)})

\* a dict whose values are 2, an innermost dict or a list of one
Nested2 ==
    OrderedDicts(FlatKeys,
                 {PyInt(2)} \cup Innermost \cup {List(<<d>>) : d \in Innermost})

\* an innermost dict two levels down, under dicts or under lists
Deep ==
    {Dict(<<PyInt(0)>>, <<d>>) : d \in Innermost}
        \cup {List(<<Dict(<<PyInt(0)>>, <<List(<<d>>)>>)>>) : d \in Innermost}

Nested3 == OrderedDicts(FlatKeys, {PyInt(3)} \cup Deep)

\* the results lists filter_results is given
MaxResults == 2

\* the results lists filter_results is given
GivenResults ==
    {<<d>> : d \in Nested2 \cup Nested3} \cup SeqsUpTo(Innermost, MaxResults)

\* columns: None, ['a'], [0, 'b']
ColumnChoices ==
    {None, List(<<PyStr("a")>>), List(<<PyInt(0), PyStr("b")>>)}

InitFilter ==
    /\ keyorder = InsertionOrder
    /\ specification = None
    /\ pc = "idle"
    /\ args = <<>>
    /\ kwargs = EmptyDict
    /\ expanded = <<>>
    /\ idx = 1
    /\ results = <<>>
    /\ returned = NoCall
    /\ runs = <<>>
    /\ first = <<>>
    /\ given \in GivenResults
    /\ filtered = [called |-> FALSE]

\* Pipeline.filter_results(given, columns, flatten)
CallFilterResults(columns, flatten) ==
    /\ filtered' = [called |-> TRUE, columns |-> columns, flatten |-> flatten,
                    ret |-> FilterResults(given, columns, flatten)]
    /\ UNCHANGED <<keyorder, specification, pc, args, kwargs, expanded, idx, results,
                   returned, runs, first, given>>

NextFilter ==
    \E columns \in ColumnChoices, flatten \in BOOLEAN :
        CallFilterResults(columns, flatten)

SpecFilter == InitFilter /\ [][NextFilter]_vars

-----------------------------------------------------------------------------
(* Claims about the expansion, under SpecExpand *)

RECURSIVE SumLen(_)
SumLen(parts) == IF parts = <<>> THEN 0 ELSE Len(Head(parts)) + SumLen(Tail(parts))

RECURSIVE ProdLen(_)
ProdLen(parts) == IF parts = <<>> THEN 1 ELSE Len(Head(parts)) * ProdLen(Tail(parts))

\* the expansions of the children of the stored specification
ChildExpansions == [i \in 1..Len(specification.c) |-> Assemble(keyorder, specification.c[i])]

\* C4: an option of k alternatives whose expansions have n_1..n_k entries
\* expands to their concatenation in alternative order, n_1 + ... + n_k
\* entries, also when alternatives are options; an option of one alternative
\* expands to that alternative's expansion.
C4_OptionIsConcatenation ==
    (pc = "assembled" /\ specification.t = "tuple") =>
        LET parts == ChildExpansions
        IN  /\ Len(expanded) = SumLen(parts)
            /\ \A i \in 1..Len(parts) : \A j \in 1..Len(parts[i]) :
                  expanded[SumLen(SubSeq(parts, 1, i - 1)) + j] = parts[i][j]
            /\ Len(parts) = 1 => expanded = parts[1]

\* an option of two alternatives, one of them an option of two alternatives and
\* the other a list, has expanded to three entries
C4_Witness ==
    /\ pc = "assembled"
    /\ specification.t = "tuple"
    /\ Len(specification.c) = 2
    /\ specification.c[1].t = "tuple"
    /\ Len(specification.c[1].c) = 2
    /\ specification.c[2].t = "list"
    /\ expanded = <<Atom, Leaf, specification.c[2]>>

\* C5: a list of m children whose expansions have n_1..n_m entries expands to
\* n_1 * ... * n_m lists of length m, the i-th element of each taken from child
\* i's expansion, the last child's choice changing fastest and the first
\* child's slowest.
C5_SequenceIsCrossProduct ==
    (pc = "assembled" /\ specification.t = "list") =>
        LET parts == ChildExpansions
            m == Len(parts)
            Stride(i) == ProdLen(SubSeq(parts, i + 1, m))
        IN  /\ Len(expanded) = ProdLen(parts)
            /\ \A j \in 1..Len(expanded) :
                  /\ expanded[j].t = "list"
                  /\ Len(expanded[j].c) = m
                  /\ \A i \in 1..m :
                        expanded[j].c[i] =
                            parts[i][(((j - 1) \div Stride(i)) % Len(parts[i])) + 1]

\* a list of two children with two different expansions each has expanded to
\* four different lists
C5_Witness ==
    /\ pc = "assembled"
    /\ specification.t = "list"
    /\ Len(specification.c) = 2
    /\ Len(expanded) = 4
    /\ Cardinality({expanded[j] : j \in 1..4}) = 4
    /\ expanded[2] = List(<<Atom, Leaf>>)

\* C6 as stated: a dict, a list or a tuple with no children expands to exactly
\* one combination, the empty container.
C6_EmptyContainerIsOneCombination ==
    (/\ pc = "assembled"
     /\ specification.t \in {"dict", "list", "tuple"}
     /\ specification.c = <<>>) => expanded = <<specification>>

\* C6, amended: a dict or a list with no children expands to exactly one
\* combination, the empty container; a tuple with no alternatives expands to
\* no combination.
C6_EmptyMappingOrListIsOneCombination ==
    /\ (/\ pc = "assembled"
        /\ specification.t \in {"dict", "list"}
        /\ specification.c = <<>>) => expanded = <<specification>>
    /\ (/\ pc = "assembled"
        /\ specification.t = "tuple"
        /\ specification.c = <<>>) => expanded = <<>>

\* the empty list has expanded to the one combination []
C6_Witness ==
    /\ pc = "assembled"
    /\ specification = List(<<>>)
    /\ expanded = <<List(<<>>)>>

-----------------------------------------------------------------------------
(* Claims about filter_results, under SpecFilter *)

DictKeys(d) == {d.k[i] : i \in 1..Len(d.k)}

RECURSIVE AllKeys(_)
\* the keys of the dicts of a value, at any depth of dicts and lists
AllKeys(v) ==
    IF v.t = "dict"
    THEN DictKeys(v) \cup UNION {AllKeys(v.c[i]) : i \in 1..Len(v.c)}
    ELSE IF v.t = "list" THEN UNION {AllKeys(v.c[i]) : i \in 1..Len(v.c)}
    ELSE {}

\* a filter_results call with flatten=True and no columns has returned
Flattened == filtered.called /\ filtered.flatten /\ filtered.columns = None

\* C7 as stated: flatten=True merges the keys of every nested mapping, at any
\* depth and inside lists, into one mapping, and a top-level key that collides
\* with a key of a nested descendant keeps the top-level value.
C7_TopLevelKeyWins ==
    Flattened =>
        \A i \in 1..Len(given) :
            /\ DictKeys(filtered.ret[i]) = AllKeys(given[i])
            /\ \A key \in DictKeys(given[i]) :
                  DictGet(filtered.ret[i], key) = DictGet(given[i], key)

\* the entries of dict d, in iteration order, that have the key or hold it in
\* their value
Deciding(d, key) ==
    {i \in 1..Len(d.k) : d.k[i] = key \/ key \in AllKeys(d.c[i])}

RECURSIVE LastSeen(_, _)
\* the value of key that the traversal of v sees last: in a dict the last
\* entry that has the key or holds it decides, and inside that entry a nested
\* value wins over the entry's own; in a list the last item that holds it
LastSeen(v, key) ==
    IF v.t = "dict"
    THEN LET i == CHOOSE i \in Deciding(v, key) : \A j \in Deciding(v, key) : j <= i
         IN  IF key \in AllKeys(v.c[i]) THEN LastSeen(v.c[i], key) ELSE v.c[i]
    ELSE LET i == CHOOSE i \in 1..Len(v.c) :
                      /\ key \in AllKeys(v.c[i])
                      /\ \A j \in 1..Len(v.c) : key \in AllKeys(v.c[j]) => j <= i
         IN  LastSeen(v.c[i], key)

\* C7, amended: flatten=True merges the keys of every nested mapping, at any
\* depth and inside lists, into one mapping, and a key that occurs more than
\* once gets the value seen last, an entry's own value before the keys nested
\* in it: a top-level key that occurs again in its own value or in the value
\* of a later entry does not keep its top-level value.
C7_LastSeenKeyWins ==
    Flattened =>
        \A i \in 1..Len(given) :
            /\ DictKeys(filtered.ret[i]) = AllKeys(given[i])
            /\ \A key \in AllKeys(given[i]) :
                  DictGet(filtered.ret[i], key) = LastSeen(given[i], key)
            /\ \A j \in 1..Len(given[i].k) :
                  (\E l \in j..Len(given[i].k) :
                      given[i].k[j] \in AllKeys(given[i].c[l]))
                    => DictGet(filtered.ret[i], given[i].k[j]) # given[i].c[j]

\* a result whose top-level key occurs again two levels down in its own value
\* was flattened, and the key no longer has its top-level value
C7_Witness ==
    /\ Flattened
    /\ Len(given) = 1
    /\ \E key \in DictKeys(given[1]) :
          LET v == DictGet(given[1], key)
          IN  /\ key \in AllKeys(v)
              /\ v.t = "dict"
              /\ key \notin DictKeys(v)
              /\ DictGet(filtered.ret[1], key) # v

-----------------------------------------------------------------------------
(* Claims about transform and the runs, under Spec *)

\* the current call has returned
Returned == pc = "idle" /\ returned.by # "none"

\* the environments of the runs that completed, in the order of the runs
Successes(rs) ==
    LET done == SelectSeq(rs, LAMBDA r : r.ok)
    IN  [i \in 1..Len(done) |-> FinalData(done[i])]

\* every combination of the expansion has been run, in the expansion's order
EveryCombinationRun ==
    /\ Len(runs) = Len(expanded)
    /\ \A i \in 1..Len(expanded) :
          /\ ~ConstructRaises(expanded[i])
          /\ runs[i].pipeline = Construct(expanded[i])

\* the environment stage k of a run started from
Before(run, k) == IF k = 1 THEN run.start ELSE run.steps[k - 1].after

\* the sinks a stage reads or writes, for a stage that has them as a list
Sinks(stage, key) == Iterate(DictGet(stage, PyStr(key)))

\* C1 as stated: for any specification and inputs, transform returns exactly
\* the final environments of the combinations whose run completed, in the
\* Expander's order; a failed run contributes nothing and every other
\* combination is still run.
C1_AnySpecificationReturnsSuccesses ==
    (Returned \/ pc = "raised") =>
        /\ pc = "idle"
        /\ EveryCombinationRun
        /\ returned.value = Successes(runs)

\* C1, amended: for a specification whose every combination is an iterable
\* (a list, a dict or a string, which line 153 can loop over), transform returns
\* exactly the final environments of the combinations whose run completed, in
\* the Expander's order; a run with an unbound stage input or a raising stage
\* function contributes nothing and every other combination is still run.
\* For any other specification transform raises at the first combination that
\* is no iterable and returns nothing.
C1_ReturnsSuccessesInOrder ==
    /\ Returned =>
          /\ EveryCombinationRun
          /\ returned.value = Successes(runs)
    /\ pc = "raised" =>
          /\ ConstructRaises(expanded[idx])
          /\ Len(runs) = idx - 1
    /\ (pc = "loop" /\ \A i \in 1..Len(expanded) : ~ConstructRaises(expanded[i])) =>
          /\ Len(runs) = idx - 1
          /\ results = Successes(runs)
    /\ \A i \in 1..Len(runs) :
          /\ runs[i].ok <=> (runs[i].started /\ Len(runs[i].steps) = Len(runs[i].pipeline))
          /\ \A k \in 1..Len(runs[i].steps) :
                LET stage == runs[i].pipeline[k]
                IN  /\ \A j \in 1..Len(Sinks(stage, "in")) :
                          DictHas(Before(runs[i], k), Sinks(stage, "in")[j])
                    /\ DictGet(stage, PyStr("function")) # Fn("fail")

\* a call returned after a run that failed and a later run that completed
C1_Witness ==
    /\ Returned
    /\ \E i, j \in 1..Len(runs) :
          /\ i < j
          /\ runs[i].started
          /\ ~runs[i].ok
          /\ runs[j].ok
          /\ returned.value = <<FinalData(runs[j])>>

RECURSIVE LeafPaths(_)
\* the paths, as child positions, to the items of a nested list that are no
\* lists
LeafPaths(v) ==
    IF v.t = "list"
    THEN UNION {{<<i>> \o p : p \in LeafPaths(v.c[i])} : i \in 1..Len(v.c)}
    ELSE {<<>>}

RECURSIVE NodeAt(_, _)
NodeAt(v, path) == IF path = <<>> THEN v ELSE NodeAt(v.c[Head(path)], Tail(path))

\* p comes before q, depth first and left to right
RECURSIVE Before2(_, _)
Before2(p, q) ==
    /\ p # <<>>
    /\ q # <<>>
    /\ \/ Head(p) < Head(q)
       \/ Head(p) = Head(q) /\ Before2(Tail(p), Tail(q))

\* the positions of `out` at which the stage writes sink s
WritesAt(stage, s) ==
    {i \in 1..Len(Sinks(stage, "out")) : Sinks(stage, "out")[i] = s}

\* the value the k-th stage of a completed run wrote to sink s last
ValueWritten(run, k, s) ==
    LET at == WritesAt(run.pipeline[k], s)
        i == CHOOSE i \in at : \A j \in at : j <= i
    IN  Outputs(run.steps[k].ret)[i]

\* the stages of a completed run that write sink s
Writers(run, s) ==
    {k \in 1..Len(run.pipeline) : WritesAt(run.pipeline[k], s) # {}}

\* C2: the stages of a run execute in flattened declaration order, depth first
\* and left to right through nested lists, and a sink that several stages
\* write has, in the final environment, the value written by the last of them.
C2_LastWriterWins ==
    \A n \in 1..Len(runs) :
        LET run == runs[n]
            tree == expanded[n]
        IN  /\ tree.t = "list" =>
                  /\ Len(run.pipeline) = Cardinality(LeafPaths(tree))
                  /\ \A p \in LeafPaths(tree) :
                        run.pipeline[1 + Cardinality({q \in LeafPaths(tree) : Before2(q, p)})]
                            = NodeAt(tree, p)
            /\ \A j \in 1..Len(run.invoked) : run.invoked[j] = j
            /\ Len(run.steps) <= Len(run.invoked)
            /\ run.ok =>
                  \A s \in DictKeys(FinalData(run)) :
                      Writers(run, s) # {} =>
                          LET k == CHOOSE k \in Writers(run, s) :
                                       \A l \in Writers(run, s) : l <= k
                          IN  DictGet(FinalData(run), s) = ValueWritten(run, k, s)

\* a run through a nested list completed in which two stages wrote different
\* values to the same sink
C2_Witness ==
    \E n \in 1..Len(runs) :
        /\ runs[n].ok
        /\ \E i \in 1..Len(expanded[n].c) : expanded[n].c[i].t = "list"
        /\ \E s \in DictKeys(FinalData(runs[n])) :
              \E k, l \in Writers(runs[n], s) :
                  /\ k < l
                  /\ ValueWritten(runs[n], k, s) # ValueWritten(runs[n], l, s)

\* the completed stages of the runs: <<run, stage position>>
CompletedStages ==
    UNION {{<<n, k>> : k \in 1..Len(runs[n].steps)} : n \in 1..Len(runs)}

\* C3 as stated: after a stage whose function returned a tuple t with
\* len(t) >= len(out), out[i] is bound to t[i] for every i < len(out) and the
\* other outputs are discarded without error; a value v that is no tuple, with
\* one identifier in out, is bound to it as it is.
C3_EveryOutIsBoundToItsOutput ==
    \A <<n, k>> \in CompletedStages :
        LET ret == runs[n].steps[k].ret
            after == runs[n].steps[k].after
            outs == Sinks(runs[n].pipeline[k], "out")
        IN  /\ (ret.t = "tuple" /\ Len(ret.c) >= Len(outs)) =>
                  /\ \A i \in 1..Len(outs) : DictGet(after, outs[i]) = ret.c[i]
                  /\ DictKeys(after) =
                        DictKeys(Before(runs[n], k)) \cup {outs[i] : i \in 1..Len(outs)}
            /\ (ret.t # "tuple" /\ Len(outs) = 1) => DictGet(after, outs[1]) = ret

\* C3, amended: after a stage whose function returned a tuple t with
\* len(t) >= len(out), out[i] is bound to t[i] for every i < len(out) whose
\* identifier does not occur again later in out (an identifier that out names
\* more than once is bound to the output of its last position), and the other
\* outputs are discarded without error; a value v that is no tuple, with one
\* identifier in out, is bound to it as it is.
C3_LastPositionOfOutIsBound ==
    \A <<n, k>> \in CompletedStages :
        LET ret == runs[n].steps[k].ret
            after == runs[n].steps[k].after
            outs == Sinks(runs[n].pipeline[k], "out")
        IN  /\ (ret.t = "tuple" /\ Len(ret.c) >= Len(outs)) =>
                  /\ \A i \in 1..Len(outs) :
                        (\A j \in (i + 1)..Len(outs) : outs[j] # outs[i]) =>
                            DictGet(after, outs[i]) = ret.c[i]
                  /\ DictKeys(after) =
                        DictKeys(Before(runs[n], k)) \cup {outs[i] : i \in 1..Len(outs)}
            /\ (ret.t # "tuple" /\ Len(outs) = 1) => DictGet(after, outs[1]) = ret
            /\ ret.t = "tuple" => Len(ret.c) >= Len(outs)

\* a stage whose function returned three outputs for two sinks has completed,
\* and so has its run
C3_Witness ==
    \E <<n, k>> \in CompletedStages :
        /\ runs[n].ok
        /\ runs[n].steps[k].ret.t = "tuple"
        /\ Len(runs[n].steps[k].ret.c) = 3
        /\ Len(Sinks(runs[n].pipeline[k], "out")) = 2

\* the sinks the stages of a pipeline name in `out`
OwnSinks(pipeline) ==
    UNION {IF /\ pipeline[k].t = "dict"
              /\ DictHas(pipeline[k], PyStr("out"))
              /\ Iterable(DictGet(pipeline[k], PyStr("out")))
           THEN {Sinks(pipeline[k], "out")[i] :
                    i \in 1..Len(Sinks(pipeline[k], "out"))}
           ELSE {} : k \in 1..Len(pipeline)}

\* C8: every combination's run starts from an environment of its own that
\* holds exactly the caller's inputs, positional input i under the integer i
\* and each named input under its name, and 'pipeline' bound to the run's flat
\* stage list; no sink written while running another combination of the same
\* call is in it or in its result.
C8_FreshEnvironmentPerRun ==
    \A n \in 1..Len(runs) :
        runs[n].started =>
            LET start == runs[n].start
            IN  /\ DictKeys(start) =
                      DictKeys(kwargs) \cup {PyStr("pipeline")}
                          \cup {PyInt(i - 1) : i \in 1..Len(args)}
                /\ \A i \in 1..Len(args) : DictGet(start, PyInt(i - 1)) = args[i]
                /\ \A key \in DictKeys(kwargs) : DictGet(start, key) = DictGet(kwargs, key)
                /\ DictGet(start, PyStr("pipeline")) = List(runs[n].pipeline)
                /\ DictKeys(FinalData(runs[n])) \subseteq
                      DictKeys(start) \cup OwnSinks(runs[n].pipeline)

\* a run wrote a sink that a later run of the same call, on two positional
\* inputs and a named one, does not write, and both completed
C8_Witness ==
    /\ Len(args) = 2
    /\ kwargs # EmptyDict
    /\ \E m, n \in 1..Len(runs) :
          /\ m < n
          /\ runs[m].ok
          /\ runs[n].ok
          /\ DictKeys(FinalData(runs[m])) \ DictKeys(FinalData(runs[n])) # {}

\* C9: calling transform again with the inputs of the first call returns the
\* list the first call returned, and the stored specification is the one the
\* first call ran on.
C9_SameInputsSameResults ==
    /\ first # <<>> => specification = first[1].specification
    /\ (/\ Returned
        /\ returned.by = "later"
        /\ args = first[1].args
        /\ kwargs = first[1].kwargs) => returned.value = first[1].value

\* a later call with the inputs of the first call returned two environments
C9_Witness ==
    /\ Returned
    /\ returned.by = "later"
    /\ args = first[1].args
    /\ kwargs = first[1].kwargs
    /\ Len(returned.value) = 2

\* a stage that names a function but has no 'out' key
LacksOut(stage) ==
    /\ stage.t = "dict"
    /\ DictHas(stage, PyStr("function"))
    /\ ~DictHas(stage, PyStr("out"))

\* some combination of the expansion has a stage without an 'out' key
MalformedStageIn(exp) ==
    \E i \in 1..Len(exp) :
        /\ ~ConstructRaises(exp[i])
        /\ \E k \in 1..Len(Construct(exp[i])) : LacksOut(Construct(exp[i])[k])

\* C10 as stated: the expansion completes before any stage function is
\* invoked, and a malformed specification, such as one with a stage that has
\* no 'out' key, makes transform fail as a whole with no stage function of any
\* combination invoked.
C10_MalformedSpecificationIsFatal ==
    /\ runs # <<>> => expanded = Assemble(keyorder, specification)
    /\ MalformedStageIn(expanded) =>
          /\ ~Returned
          /\ \A n \in 1..Len(runs) : runs[n].invoked = <<>>

\* C10, amended: the expansion completes before any stage function is invoked.
\* A stage that has no 'out' key is not found by the expansion: the run of its
\* combination fails at that stage, after the stage's function was invoked
\* and returned, the combination contributes no result, and transform goes on
\* to the other combinations and returns; transform raises only at a
\* combination that is no iterable.
C10_MissingOutFailsOnlyItsRun ==
    /\ runs # <<>> =>
          /\ expanded = Assemble(keyorder, specification)
          /\ \A n \in 1..Len(runs) : runs[n].pipeline = Construct(expanded[n])
    /\ \A n \in 1..Len(runs) :
          LET run == runs[n]
              k == Len(run.steps) + 1
          IN  /\ \A l \in 1..Len(run.steps) : ~LacksOut(run.pipeline[l])
              /\ (/\ run.started
                  /\ k <= Len(run.pipeline)
                  /\ LacksOut(run.pipeline[k])
                  /\ InputsResolve(Before(run, k), run.pipeline[k])
                  /\ CallStage(Before(run, k), run.pipeline[k]).ok) =>
                    /\ ~run.ok
                    /\ run.invoked # <<>>
                    /\ run.invoked[Len(run.invoked)] = k
    /\ pc = "raised" => ConstructRaises(expanded[idx])
    /\ Returned => Len(runs) = Len(expanded)

\* a call returned one environment after two runs, the first of which failed
\* at a stage without 'out' whose function had been invoked
C10_Witness ==
    /\ Returned
    /\ Len(runs) = 2
    /\ ~runs[1].ok
    /\ runs[1].invoked # <<>>
    /\ LacksOut(runs[1].pipeline[runs[1].invoked[Len(runs[1].invoked)]])
    /\ runs[2].ok
    /\ Len(returned.value) = 1

====
